---- MODULE Spec2Model ----
(***************************************************************************)
(* Orchestration and execution pipeline of the Nexus AI front end:         *)
(* App.handleSubmit (src/App.tsx) sequencing orchestrateRequest, the paid  *)
(* key gate and the four generate*Response handlers                        *)
(* (src/services/geminiService.ts).  One action is the code that runs      *)
(* between two awaits of a handleSubmit invocation; the replies of the     *)
(* upstream service, of window.aistudio and of fetch are the inputs.       *)
(* DecodeSpec is the playback of an audio message: ChatMessage's           *)
(* handlePlayAudio (src/unnamed/part_000) and decodeAudio.                 *)
(***************************************************************************)
EXTENDS Integers, Sequences, FiniteSets, TLC

\* ------------------------------------------------------------------ bounds
\* a submission is accepted only while the conversation is shorter than this
MaxMessages == 4
\* "not done" answers the video operation may give before it must answer done
MaxPolls == 2
\* samples in an audio payload, channel counts the decoder is applied with,
\* and playbacks of one message
MaxSamples == 3
MaxChannels == 2
MaxPlays == 2

\* ------------------------------------------------------- JavaScript values
\* A string is the sequence of its characters (or, for fixed texts that are
\* only stored and compared, of its chunks); undefined, null and numbers are
\* the other values property reads and falsy tests distinguish.
Str(s) == [t |-> "string", s |-> s]
Undefined == [t |-> "undefined", s |-> <<>>]
Null == [t |-> "null", s |-> <<>>]
Num == [t |-> "number", s |-> <<"7">>]
Arr(a) == [t |-> "array", s |-> a]

\* JavaScript truthiness of the values above (the number modelled is not 0)
Truthy(v) == CASE v.t = "string" -> v.s # <<>>
               [] v.t \in {"undefined", "null"} -> FALSE
               [] OTHER -> TRUE

\* String.prototype.includes: sub occurs as a contiguous run of s
Includes(s, sub) ==
  \E i \in 0..(Len(s) - Len(sub)) : SubSeq(s, i + 1, i + Len(sub)) = sub

\* String.prototype.trim on the characters of the input box
RECURSIVE TrimLeft(_)
TrimLeft(s) == IF s # <<>> /\ Head(s) = " " THEN TrimLeft(Tail(s)) ELSE s
RECURSIVE TrimRight(_)
TrimRight(s) ==
  IF s # <<>> /\ s[Len(s)] = " " THEN TrimRight(SubSeq(s, 1, Len(s) - 1)) ELSE s
Trim(s) == TrimRight(TrimLeft(s))

\* a thrown Error with its message, and a normal return
Throw(m) == [ok |-> FALSE, message |-> m, value |-> Undefined]
Return(v) == [ok |-> TRUE, message |-> Str(<<>>), value |-> v]

\* ------------------------------------------------------ identifiers (chars)
\* 'gemini-3-flash-preview'
FlashModel ==
  <<"g","e","m","i","n","i","-","3","-","f","l","a","s","h","-","p","r","e","v","i","e","w">>
\* 'gemini-3-pro-preview'
ProModel ==
  <<"g","e","m","i","n","i","-","3","-","p","r","o","-","p","r","e","v","i","e","w">>
\* 'gemini-2.5-flash-image'
FlashImageModel ==
  <<"g","e","m","i","n","i","-","2",".","5","-","f","l","a","s","h","-","i","m","a","g","e">>
\* 'gemini-3-pro-image-preview'
ProImageModel ==
  <<"g","e","m","i","n","i","-","3","-","p","r","o","-","i","m","a","g","e","-","p","r","e","v","i","e","w">>
\* 'veo-3.1-fast-generate-preview'
VeoModel ==
  <<"v","e","o","-","3",".","1","-","f","a","s","t","-","g","e","n","e","r","a","t","e","-","p","r","e","v","i","e","w">>
\* 'gemini-2.5-flash-preview-tts'
TtsModel ==
  <<"g","e","m","i","n","i","-","2",".","5","-","f","l","a","s","h","-","p","r","e","v","i","e","w","-","t","t","s">>
\* 'veo-2.0-generate-001': a video model the selection rules do not name
OtherVeoModel ==
  <<"v","e","o","-","2",".","0","-","g","e","n","e","r","a","t","e","-","0","0","1">>
\* 'gemini-2.5-pro-image': an image model the selection rules do not name
OtherProImageModel ==
  <<"g","e","m","i","n","i","-","2",".","5","-","p","r","o","-","i","m","a","g","e">>
\* 'veo'
VeoNeedle == <<"v","e","o">>
\* 'pro-image'
ProImageNeedle == <<"p","r","o","-","i","m","a","g","e">>
\* 'pro'
ProNeedle == <<"p","r","o">>

\* enum TaskType
TEXT == <<"T","E","X","T">>
IMAGE == <<"I","M","A","G","E">>
VIDEO == <<"V","I","D","E","O">>
AUDIO == <<"A","U","D","I","O">>
SEARCH == <<"S","E","A","R","C","H">>
TaskType == {TEXT, IMAGE, VIDEO, AUDIO, SEARCH}

\* the models the system instruction of orchestrateRequest names
InstructedModels ==
  {FlashModel, ProModel, FlashImageModel, ProImageModel, VeoModel, TtsModel}

\* ------------------------------------------------------- orchestrateRequest
\* A parsed JSON object with the four properties the code reads; a property
\* the text does not have reads as undefined.
Obj(type, model, reasoning, refinedPrompt) ==
  [t |-> "object", s |-> <<>>,
   fields |-> [type |-> type, model |-> model, reasoning |-> reasoning,
               refinedPrompt |-> refinedPrompt]]

\* response.text of the classification call: a JSON text stands for the
\* document JSON.parse reads from it (valid or not, and then its value)
JsonText(valid, value) ==
  [t |-> "string", s |-> <<"json">>, doc |-> [valid |-> valid, value |-> value]]
EmptyObjectText == JsonText(TRUE, Obj(Undefined, Undefined, Undefined, Undefined))

\* JSON.parse
JSONParse(text) ==
  IF text.doc.valid THEN Return(text.doc.value)
  ELSE Throw(Str(<<"SyntaxError: Unexpected token in JSON">>))

\* reading property name of value v (v is not null or undefined)
Get(v, name) == IF v.t = "object" THEN v.fields[name] ELSE Undefined

\* variant: only the video family is flagged
requiresPaidKeyVeoOnly(model) == Includes(model, VeoNeedle)

\* variant: the second test looks for 'pro' instead of 'pro-image'
requiresPaidKeyAnyPro(model) == Includes(model, VeoNeedle) \/ Includes(model, ProNeedle)

\* result.model.includes('veo') || result.model.includes('pro-image')
requiresPaidKey(model) == Includes(model, VeoNeedle) \/ Includes(model, ProImageNeedle)

\* orchestrateRequest after its generateContent call has answered with
\* response: the decision it returns, or the error it throws
orchestrateRequest(response) ==
  IF response.rejected THEN Throw(response.message)
  ELSE LET parsed == JSONParse(IF Truthy(response.text) THEN response.text
                               ELSE EmptyObjectText)
       IN IF ~parsed.ok THEN parsed
          ELSE LET result == parsed.value
                   model == Get(result, "model")
               IN IF result.t \in {"null", "undefined"}
                  THEN Throw(Str(<<"TypeError: Cannot read properties of null (reading 'model')">>))
                  ELSE IF model.t \in {"null", "undefined"}
                  THEN Throw(Str(<<"TypeError: Cannot read properties of undefined (reading 'includes')">>))
                  ELSE IF model.t # "string"
                  THEN Throw(Str(<<"TypeError: result.model.includes is not a function">>))
                  ELSE Return([type |-> Get(result, "type"),
                               model |-> model,
                               reasoning |-> Get(result, "reasoning"),
                               refinedPrompt |-> Get(result, "refinedPrompt"),
                               requiresPaidKey |-> requiresPaidKey(model.s)])

\* a || b
Or(a, b) == IF Truthy(a) THEN a ELSE b

\* the characters a template literal puts for value v
Interpolate(v) == CASE v.t = "string" -> v.s
                 [] v.t = "undefined" -> <<"undefined">>
                 [] v.t = "null" -> <<"null">>
                 [] OTHER -> v.s

\* --------------------------------------------------------- upstream replies
\* An upstream call either rejects with an Error or answers.  A candidate of
\* a generateContent answer has its groundingMetadata.groundingChunks and its
\* content.parts; a part has inlineData or not; a grounding chunk has web
\* and/or maps, each with uri and title.
\* the message of a rejected call; an Error may have an empty message
RejectionMessages == {Str(<<"upstream request failed">>), Str(<<>>)}

Source(def, uri, title) == [def |-> def, uri |-> uri, title |-> title]
NoSource == Source(FALSE, Undefined, Undefined)
Chunk(web, maps) == [web |-> web, maps |-> maps]
Part(def, data, mimeType) ==
  [inlineData |-> [def |-> def, data |-> data, mimeType |-> mimeType]]
TextPart == Part(FALSE, Undefined, Undefined)
Candidate(groundingChunks, parts) ==
  [groundingChunks |-> groundingChunks, parts |-> parts]

Answer(text, candidates) ==
  [rejected |-> FALSE, message |-> Str(<<>>), text |-> text, candidates |-> candidates]
Rejections ==
  {[rejected |-> TRUE, message |-> m, text |-> Undefined, candidates |-> <<>>] :
     m \in RejectionMessages}

\* ------------------------------------------------------ generateTextResponse
\* variant: the two tests are separate ifs, not if / else if
TextConfigBoth(model, useSearch) ==
  [googleSearch |-> useSearch, thinkingConfig |-> Includes(model, ProNeedle)]

\* the config generateTextResponse builds (lines 76-85)
TextConfig(model, useSearch) ==
  [googleSearch |-> useSearch,
   thinkingConfig |-> (~useSearch /\ Includes(model, ProNeedle))]

\* response.candidates?.[0]?.groundingMetadata?.groundingChunks
FirstGroundingChunks(response) ==
  IF response.candidates = <<>> THEN Undefined
  ELSE response.candidates[1].groundingChunks

\* generateTextResponse once generateContent has answered
generateTextResponse(response) ==
  IF response.rejected THEN Throw(response.message)
  ELSE Return([text |-> response.text,
               groundingChunks |-> FirstGroundingChunks(response)])

\* c.web?.uri || c.maps?.uri  and  c.web?.title || c.maps?.title || "Source"
ChunkUri(c) == Or(IF c.web.def THEN c.web.uri ELSE Undefined,
                  IF c.maps.def THEN c.maps.uri ELSE Undefined)
ChunkTitle(c) == Or(Or(IF c.web.def THEN c.web.title ELSE Undefined,
                       IF c.maps.def THEN c.maps.title ELSE Undefined),
                    Str(<<"Source">>))

\* variant: the mapped list is stored without the filter
HasUriUnfiltered(x) == TRUE

HasUri(x) == Truthy(x.uri)

\* Array.prototype.filter with x => x.uri
RECURSIVE FilterHasUri(_)
FilterHasUri(a) ==
  IF a = <<>> THEN <<>>
  ELSE IF HasUri(Head(a)) THEN <<Head(a)>> \o FilterHasUri(Tail(a))
  ELSE FilterHasUri(Tail(a))

\* textResult.groundingChunks?.map(...).filter(x => x.uri)  (App.tsx 116-119)
GroundingUrls(groundingChunks) ==
  IF groundingChunks.t # "array" THEN Undefined
  ELSE Arr(FilterHasUri([i \in 1..Len(groundingChunks.s) |->
                           [uri |-> ChunkUri(groundingChunks.s[i]),
                            title |-> ChunkTitle(groundingChunks.s[i])]]))

\* ----------------------------------------------------- generateImageResponse
\* variant: isPro is a test for the model family
ImageConfigByFamily(model) ==
  IF Includes(model, ProImageNeedle)
  THEN [imageSize |-> "2K", aspectRatio |-> "16:9"]
  ELSE [imageSize |-> "none", aspectRatio |-> "1:1"]

\* imageConfig of the request (lines 104-111)
ImageConfig(model) ==
  IF model = ProImageModel
  THEN [imageSize |-> "2K", aspectRatio |-> "16:9"]
  ELSE [imageSize |-> "none", aspectRatio |-> "1:1"]

\* response.candidates?.[0]?.content?.parts || []
FirstParts(response) ==
  IF response.candidates = <<>> THEN <<>> ELSE response.candidates[1].parts

\* variant: the loop keeps the last part with inline data
RECURSIVE ScanPartsLast(_)
ScanPartsLast(parts) ==
  IF parts = <<>> THEN Throw(Str(<<"No image data returned from API.">>))
  ELSE IF parts[Len(parts)].inlineData.def
  THEN Return([base64 |-> parts[Len(parts)].inlineData.data,
               mimeType |-> Or(parts[Len(parts)].inlineData.mimeType,
                               Str(<<"image/png">>))])
  ELSE ScanPartsLast(SubSeq(parts, 1, Len(parts) - 1))

\* the for loop over the parts (lines 116-123)
RECURSIVE ScanParts(_)
ScanParts(parts) ==
  IF parts = <<>> THEN Throw(Str(<<"No image data returned from API.">>))
  ELSE IF Head(parts).inlineData.def
  THEN Return([base64 |-> Head(parts).inlineData.data,
               mimeType |-> Or(Head(parts).inlineData.mimeType, Str(<<"image/png">>))])
  ELSE ScanParts(Tail(parts))

\* generateImageResponse once generateContent has answered
generateImageResponse(response) ==
  IF response.rejected THEN Throw(response.message)
  ELSE ScanParts(FirstParts(response))

\* `data:${imageResult.mimeType};base64,${imageResult.base64}`
DataUrl(imageResult) ==
  Str(<<"data:">> \o Interpolate(imageResult.mimeType) \o <<";base64,">>
      \o Interpolate(imageResult.base64))

\* ----------------------------------------------------- generateAudioResponse
\* response.candidates?.[0]?.content?.parts?.[0]?.inlineData?.data
FirstInlineData(response) ==
  IF FirstParts(response) = <<>> THEN Undefined
  ELSE IF ~FirstParts(response)[1].inlineData.def THEN Undefined
  ELSE FirstParts(response)[1].inlineData.data

\* variant: the payload is returned without the test
NoAudioUnchecked(base64Audio) == FALSE

\* if (!base64Audio)
NoAudio(base64Audio) == ~Truthy(base64Audio)

\* generateAudioResponse once generateContent has answered
generateAudioResponse(response) ==
  IF response.rejected THEN Throw(response.message)
  ELSE IF NoAudio(FirstInlineData(response))
  THEN Throw(Str(<<"No audio data returned.">>))
  ELSE Return(FirstInlineData(response))

\* --------------------------------------------- decodeAudio (lines 182-221)
\* the base64 alphabet; a character stands for its position minus one
Base64Alphabet ==
  <<"A","B","C","D","E","F","G","H","I","J","K","L","M","N","O","P",
    "Q","R","S","T","U","V","W","X","Y","Z","a","b","c","d","e","f",
    "g","h","i","j","k","l","m","n","o","p","q","r","s","t","u","v",
    "w","x","y","z","0","1","2","3","4","5","6","7","8","9","+","/">>
Sextet(ch) == (CHOOSE k \in DOMAIN Base64Alphabet : Base64Alphabet[k] = ch) - 1
IsBase64Char(ch) == \E k \in DOMAIN Base64Alphabet : Base64Alphabet[k] = ch

\* forgiving-base64 decode, step 2: a string whose length is a multiple of 4
\* loses one or two '=' at its end
StripPadding(s) ==
  IF Len(s) % 4 # 0 \/ s = <<>> THEN s
  ELSE IF s[Len(s)] # "=" THEN s
  ELSE IF s[Len(s) - 1] # "=" THEN SubSeq(s, 1, Len(s) - 1)
  ELSE SubSeq(s, 1, Len(s) - 2)

\* the bytes that the sextets of s spell, 24 bits at a time; the bits left
\* over by a last group of two or three characters are dropped
RECURSIVE Octets(_)
Octets(s) ==
  LET a == Sextet(s[1])
      b == Sextet(s[2])
      c == Sextet(s[3])
      d == Sextet(s[4])
  IN CASE Len(s) = 0 -> <<>>
       [] Len(s) = 2 -> <<a * 4 + b \div 16>>
       [] Len(s) = 3 -> <<a * 4 + b \div 16, (b % 16) * 16 + c \div 4>>
       [] OTHER -> <<a * 4 + b \div 16, (b % 16) * 16 + c \div 4, (c % 4) * 64 + d>>
                   \o Octets(SubSeq(s, 5, Len(s)))

\* atob (line 183): the binary string, one code unit per byte
atob(base64) ==
  LET s == StripPadding(SelectSeq(base64, LAMBDA ch : ch # " ")) IN
  IF Len(s) % 4 = 1 \/ \E k \in DOMAIN s : ~IsBase64Char(s[k])
  THEN Throw(Str(<<"InvalidCharacterError">>))
  ELSE Return(Octets(s))

\* bytes[i] = binaryString.charCodeAt(i) on a Uint8Array (lines 184-188)
Uint8Array(binaryString) == [i \in DOMAIN binaryString |-> binaryString[i] % 256]

\* element k of an Int16Array over the buffer: two bytes, low byte first (the
\* byte order of the platforms browsers run on), read as two's complement
Int16At(bytes, k) ==
  LET u == bytes[2 * k - 1] + 256 * bytes[2 * k]
  IN IF u >= 32768 THEN u - 65536 ELSE u

\* new Int16Array(data.buffer) (line 209): a RangeError unless the byte length
\* of the buffer is a multiple of 2
Int16Array(bytes) ==
  IF Len(bytes) % 2 # 0
  THEN Throw(Str(<<"RangeError: byte length of Int16Array should be a multiple of 2">>))
  ELSE Return([k \in 1..(Len(bytes) \div 2) |-> Int16At(bytes, k)])

\* dataInt16[...] / 32768.0 stored in a Float32Array: the quotient is exact,
\* kept as numerator and denominator
Normalized(sample) == [num |-> sample, den |-> 32768]

\* decodeAudioDataRaw (lines 202-221).  createBuffer converts its length
\* argument dataInt16.length / numChannels to an unsigned long, dropping the
\* fraction, and throws NotSupportedError for length 0; the writes of the loop
\* at an index past the end of channelData are ignored.
decodeAudioDataRaw(data, sampleRate, numChannels) ==
  LET dataInt16 == Int16Array(data) IN
  IF ~dataInt16.ok THEN dataInt16
  ELSE LET frameCount == Len(dataInt16.value) \div numChannels IN
       IF frameCount = 0
       THEN Throw(Str(<<"NotSupportedError: createBuffer length 0">>))
       ELSE Return([numberOfChannels |-> numChannels, length |-> frameCount,
                    sampleRate |-> sampleRate,
                    channelData |->
                      [channel \in 1..numChannels |->
                         [i \in 1..frameCount |->
                            Normalized(dataInt16.value[(i - 1) * numChannels + channel])]]])

\* decodeAudio (lines 182-200)
decodeAudio(base64) ==
  LET binaryString == atob(base64) IN
  IF ~binaryString.ok THEN binaryString
  ELSE decodeAudioDataRaw(Uint8Array(binaryString.value), 24000, 1)

\* what the speech service sends: samples as 16-bit little-endian PCM, the
\* bytes in base64 with padding
RECURSIVE PcmBytes(_)
PcmBytes(samples) ==
  IF samples = <<>> THEN <<>>
  ELSE LET u == Head(samples) % 65536
       IN <<u % 256, u \div 256>> \o PcmBytes(Tail(samples))
Letter(n) == Base64Alphabet[n + 1]
RECURSIVE btoa(_)
btoa(bytes) ==
  CASE Len(bytes) = 0 -> <<>>
    [] Len(bytes) = 1 ->
         <<Letter(bytes[1] \div 4), Letter((bytes[1] % 4) * 16), "=", "=">>
    [] Len(bytes) = 2 ->
         <<Letter(bytes[1] \div 4), Letter((bytes[1] % 4) * 16 + bytes[2] \div 16),
           Letter((bytes[2] % 16) * 4), "=">>
    [] OTHER ->
         <<Letter(bytes[1] \div 4), Letter((bytes[1] % 4) * 16 + bytes[2] \div 16),
           Letter((bytes[2] % 16) * 4 + bytes[3] \div 64), Letter(bytes[3] % 64)>>
         \o btoa(SubSeq(bytes, 4, Len(bytes)))

\* ----------------------------------------------------- generateVideoResponse
\* a video operation: its done flag and
\* response?.generatedVideos?.[0]?.video?.uri
Operation(done, uri) == [done |-> done, uri |-> uri]
NoOperation == Operation(FALSE, Undefined)

\* variant: the loop does not look at the done flag
ShouldPollAlways(operation) == TRUE

\* while (!operation.done)
ShouldPoll(operation) == ~operation.done

\* variant: the uri is used without the test
NoVideoUriUnchecked(videoUri) == FALSE

\* if (!videoUri)
NoVideoUri(videoUri) == ~Truthy(videoUri)

\* ------------------------------------------------------------ reply domains
Reasoning == Str(<<"why this model">>)
RefinedPrompt == Str(<<"refined prompt">>)
Decided(type, model) ==
  Answer(JsonText(TRUE, Obj(type, model, Reasoning, RefinedPrompt)), <<>>)

\* what the classification call may answer: the pairs the system instruction
\* asks for, pairs it does not name, objects that lack a property or hold a
\* value of another type, text that is no object or no JSON, no text at all,
\* and a rejected call
ClassifyResponses ==
  {Decided(Str(TEXT), Str(FlashModel)), Decided(Str(TEXT), Str(ProModel)),
   Decided(Str(SEARCH), Str(FlashModel)), Decided(Str(SEARCH), Str(ProModel)),
   Decided(Str(IMAGE), Str(FlashImageModel)), Decided(Str(IMAGE), Str(ProImageModel)),
   Decided(Str(VIDEO), Str(VeoModel)), Decided(Str(AUDIO), Str(TtsModel)),
   Decided(Str(VIDEO), Str(OtherVeoModel)),
   Decided(Str(IMAGE), Str(OtherProImageModel)),
   Decided(Str(TEXT), Str(<<>>)),
   Decided(Undefined, Str(FlashModel)),
   Decided(Str(TEXT), Undefined),
   Decided(Str(TEXT), Num),
   Answer(JsonText(TRUE, Obj(Str(TEXT), Str(FlashModel), Undefined, RefinedPrompt)), <<>>),
   Answer(JsonText(TRUE, Obj(Str(IMAGE), Str(FlashImageModel), Reasoning, Undefined)), <<>>),
   Answer(JsonText(TRUE, Null), <<>>),
   Answer(JsonText(FALSE, Undefined), <<>>),
   Answer(Undefined, <<>>)}
  \cup Rejections

Uri1 == Str(<<"https://a.example/1">>)
Uri2 == Str(<<"https://maps.example/2">>)
Uri3 == Str(<<"https://maps.example/3">>)
SomeChunks ==
  Arr(<<Chunk(Source(TRUE, Uri1, Str(<<"First">>)), NoSource),
        Chunk(NoSource, NoSource),
        Chunk(Source(TRUE, Str(<<>>), Str(<<"Blank">>)), NoSource),
        Chunk(NoSource, Source(TRUE, Uri2, Undefined)),
        Chunk(Source(TRUE, Undefined, Undefined), Source(TRUE, Uri3, Str(<<"Map">>)))>>)
TextResponses ==
  {Answer(Str(<<"an answer">>), <<>>),
   Answer(Undefined, <<Candidate(Undefined, <<>>)>>),
   Answer(Str(<<"an answer">>), <<Candidate(SomeChunks, <<TextPart>>)>>)}
  \cup Rejections

Png == Str(<<"iVBOR">>)
Jpeg == Str(<<"/9j/4">>)
ImageResponses ==
  {Answer(Undefined, <<>>),
   Answer(Str(<<"no image">>), <<Candidate(Undefined, <<TextPart>>)>>),
   Answer(Undefined, <<Candidate(Undefined,
      <<TextPart, Part(TRUE, Png, Undefined), Part(TRUE, Jpeg, Str(<<"image/jpeg">>))>>)>>),
   Answer(Undefined, <<Candidate(Undefined,
      <<Part(TRUE, Jpeg, Str(<<"image/jpeg">>)), Part(TRUE, Png, Undefined)>>)>>)}
  \cup Rejections

Pcm == Str(<<"AAD/fw==">>)
AudioResponses ==
  {Answer(Undefined, <<>>),
   Answer(Undefined, <<Candidate(Undefined, <<TextPart, Part(TRUE, Pcm, Undefined)>>)>>),
   Answer(Undefined, <<Candidate(Undefined, <<Part(TRUE, Str(<<>>), Undefined)>>)>>),
   Answer(Undefined, <<Candidate(Undefined, <<Part(TRUE, Pcm, Undefined)>>)>>)}
  \cup Rejections

VideoUri == Str(<<"https://video.example/v?alt=media">>)
\* an operation state the service may report
OperationStates ==
  {Operation(FALSE, Undefined), Operation(TRUE, Undefined),
   Operation(TRUE, Str(<<>>)), Operation(TRUE, VideoUri)}
OperationResponses ==
  {[rejected |-> FALSE, message |-> Str(<<>>), operation |-> o] : o \in OperationStates}
  \cup {[rejected |-> TRUE, message |-> m, operation |-> NoOperation] :
          m \in RejectionMessages}

\* fetch: rejects, or resolves to a Response with its ok flag
FetchResponses ==
  {[rejected |-> FALSE, message |-> Str(<<>>), ok |-> b] : b \in BOOLEAN}
  \cup {[rejected |-> TRUE, message |-> Str(<<"TypeError: Failed to fetch">>), ok |-> FALSE]}

\* the audio payloads of the speech service: up to MaxSamples samples, and
\* possibly a byte more than whole samples
SampleValues == {-32768, -1, 0, 256, 32767}
Payloads ==
  {[samples |-> s, trailing |-> b] :
     s \in UNION {[1..n -> SampleValues] : n \in 0..MaxSamples},
     b \in {<<>>, <<127>>}}
PayloadBytes(p) == PcmBytes(p.samples) \o p.trailing

\* what the user may type into the box
Inputs == {<<>>, <<" ", " ">>, <<" ", "h", "i">>}

\* ------------------------------------------------------------------- state
VARIABLES
  input,         \* useState: text of the input box (characters)
  messages,      \* useState: the conversation
  isLoading,     \* useState
  loadingStep,   \* useState: "orchestrating", "generating" or "null"
  currentModel,  \* useState: string or undefined
  currentTask,   \* useState: string or undefined
  error,         \* useState: string or null
  aistudio,      \* whether window.aistudio exists
  turns,         \* the handleSubmit invocations that passed line 66 and are
                 \* suspended at an await, or were the last to finish
  lastEvent,     \* whether the last step was a submit that returned at line 66
  playback       \* the ChatMessage of an audio message: useState isPlaying,
                 \* what each decodeAudio call of handlePlayAudio returned,
                 \* and the payload the speech service had sent

vars == <<input, messages, isLoading, loadingStep, currentModel, currentTask,
          error, aistudio, turns, lastEvent, playback>>

NoDecision ==
  [type |-> Undefined, model |-> Undefined, reasoning |-> Undefined,
   refinedPrompt |-> Undefined, requiresPaidKey |-> FALSE]

\* interface Message, without id and timestamp
Message(role, content, taskType, usedModel, attachmentUrl, audioData, groundingUrls, orchestrationData) ==
  [role |-> role, content |-> content, taskType |-> taskType,
   usedModel |-> usedModel, attachmentUrl |-> attachmentUrl,
   audioData |-> audioData, groundingUrls |-> groundingUrls,
   orchestrationData |-> orchestrationData]

Welcome ==
  Message("assistant", Str(<<"I'm Nexus, your AI Orchestrator.">>), Undefined,
          Undefined, Undefined, Undefined, Undefined,
          [def |-> FALSE, d |-> NoDecision])

\* userMsg (lines 68-73)
UserMessage(content) ==
  Message("user", Str(content), Undefined, Undefined, Undefined, Undefined,
          Undefined, [def |-> FALSE, d |-> NoDecision])

\* responseContent (lines 100-105) with what the switch has added to it
ResponseContent(d, content, attachmentUrl, audioData, groundingUrls) ==
  Message("assistant", content, d.type, d.model, attachmentUrl, audioData,
          groundingUrls, [def |-> TRUE, d |-> d])

\* an upstream, browser or timer call a turn has issued
Call(fn, model, prompt, config) ==
  [fn |-> fn, model |-> model, prompt |-> prompt, config |-> config]
NoConfig == [none |-> TRUE]

\* a handleSubmit invocation: the call it awaits (pc), the text the
\* classification call answered with, its decision, the calls it has issued
\* in order and how each was answered, the last operation state it holds, the
\* done flags of the operation states it has received, and how it ended (the
\* call it was at and the message of the Error that reached the catch); gate is
\* the number of calls it had issued when it invoked ensurePaidKeySelection,
\* 0 while it has not
NewTurn(content) ==
  [pc |-> "orchestrateRequest", classified |-> Undefined,
   decision |-> NoDecision,
   calls |-> <<Call("orchestrateRequest", Str(FlashModel), Str(content), NoConfig)>>,
   answers |-> <<>>,
   operation |-> NoOperation, reports |-> <<>>, gate |-> 0,
   outcome |-> "running", failedAt |-> "none", thrown |-> Undefined]

Answered(trn, answer) == [trn EXCEPT !.answers = Append(@, answer)]
Outcome(response) == IF response.rejected THEN "rejected" ELSE "resolved"

Calling(trn, call) == [trn EXCEPT !.pc = call.fn, !.calls = Append(@, call)]

Running(t) == t.pc # "done"
NotDoneReports(trn) == Cardinality({k \in DOMAIN trn.reports : ~trn.reports[k]})

\* no audio message is shown
NoPlayback ==
  [isPlaying |-> FALSE, decoded |-> <<>>, applied |-> <<>>,
   sent |-> [samples |-> <<>>, trailing |-> <<>>]]

Init ==
  /\ input = <<>>
  /\ messages = <<Welcome>>
  /\ isLoading = FALSE
  /\ loadingStep = "null"
  /\ currentModel = Undefined
  /\ currentTask = Undefined
  /\ error = Null
  /\ aistudio \in BOOLEAN
  /\ turns = <<>>
  /\ lastEvent = "other"
  /\ playback = NoPlayback

\* ------------------------------------------- the ends of a turn (App.tsx)
\* variant: the end of a turn leaves the loading flag set
FinallyStillLoading(i, trn) ==
  /\ isLoading' = isLoading
  /\ loadingStep' = "null"
  /\ currentModel' = Undefined
  /\ currentTask' = Undefined
  /\ turns' = [turns EXCEPT ![i] = [trn EXCEPT !.pc = "done"]]

\* variant: the end of a turn leaves the model and task signals as they are
FinallyKeepsSignals(i, trn) ==
  /\ isLoading' = FALSE
  /\ loadingStep' = "null"
  /\ currentModel' = currentModel
  /\ currentTask' = currentTask
  /\ turns' = [turns EXCEPT ![i] = [trn EXCEPT !.pc = "done"]]

\* finally (lines 146-151)
Finally(i, trn) ==
  /\ isLoading' = FALSE
  /\ loadingStep' = "null"
  /\ currentModel' = Undefined
  /\ currentTask' = Undefined
  /\ turns' = [turns EXCEPT ![i] = [trn EXCEPT !.pc = "done"]]

\* variant: the reset is at the end of the try block, not in a finally
CatchWithoutFinally(i, trn, message) ==
  /\ messages' = messages
  /\ error' = Or(message, Str(<<"An unexpected error occurred.">>))
  /\ turns' = [turns EXCEPT ![i] = [trn EXCEPT !.pc = "done", !.outcome = "failed",
                                               !.failedAt = trn.pc, !.thrown = message]]
  /\ UNCHANGED <<isLoading, loadingStep, currentModel, currentTask>>

\* catch (lines 143-145), then finally
Catch(i, trn, message) ==
  /\ messages' = messages
  /\ error' = Or(message, Str(<<"An unexpected error occurred.">>))
  /\ Finally(i, [trn EXCEPT !.outcome = "failed", !.failedAt = trn.pc,
                          !.thrown = message])

\* variant: line 141 spreads the messages array the invocation captured when
\* it started instead of using the functional update
CommitOverStale(i, trn, message) ==
  /\ messages' = Append(SubSeq(messages, 1, Len(messages) - 1), message)
  /\ error' = error
  /\ Finally(i, [trn EXCEPT !.outcome = "committed"])

\* setMessages at line 141, then finally
Commit(i, trn, message) ==
  /\ messages' = Append(messages, message)
  /\ error' = error
  /\ Finally(i, [trn EXCEPT !.outcome = "committed"])

\* the turn stops at its next await; lines 86-88 have run
Suspend(i, trn) ==
  /\ turns' = [turns EXCEPT ![i] = trn]
  /\ loadingStep' = "generating"
  /\ currentModel' = trn.decision.model
  /\ currentTask' = trn.decision.type
  /\ UNCHANGED <<messages, isLoading, error>>

\* ---------------------------------------------------------------- actions
\* onChange of the textarea (line 213)
SetInput(v) ==
  /\ v # input
  /\ input' = v
  /\ lastEvent' = "other"
  /\ UNCHANGED <<messages, isLoading, loadingStep, currentModel, currentTask,
                 error, aistudio, turns, playback>>

\* variant: the guard tests the input without trimming it
RejectedUntrimmed == input = <<>> \/ isLoading

\* variant: a displayed error blocks the form until it is dismissed
RejectedWhileError == Trim(input) = <<>> \/ isLoading \/ error # Null

\* variant: the guard tests the input only
RejectedIgnoringLoading == Trim(input) = <<>>

\* if (!input.trim() || isLoading) return;  (line 66)
Rejected == Trim(input) = <<>> \/ isLoading

\* handleSubmit up to its first await (lines 64-83)
handleSubmit ==
  IF Rejected
  THEN /\ lastEvent' = "submit ignored"
       /\ UNCHANGED <<input, messages, isLoading, loadingStep, currentModel,
                      currentTask, error, aistudio, turns, playback>>
  ELSE /\ Len(messages) < MaxMessages
       /\ messages' = Append(messages, UserMessage(input))
       /\ input' = <<>>
       /\ isLoading' = TRUE
       /\ error' = Null
       /\ loadingStep' = "orchestrating"
       /\ turns' = Append(SelectSeq(turns, Running), NewTurn(input))
       /\ lastEvent' = "other"
       /\ UNCHANGED <<currentModel, currentTask, aistudio, playback>>

\* the switch on decision.type (lines 107-139): the handler call it issues,
\* or, when no case matches, line 141 at once
Execute(i, trn) ==
  LET d == trn.decision IN
  CASE d.type \in {Str(TEXT), Str(SEARCH)} ->
         Suspend(i, Calling(trn, Call("generateTextResponse", d.model, d.refinedPrompt,
                                      TextConfig(d.model.s, d.type = Str(SEARCH)))))
    [] d.type = Str(IMAGE) ->
         Suspend(i, Calling(trn, Call("generateImageResponse", d.model, d.refinedPrompt,
                                      ImageConfig(d.model.s))))
    [] d.type = Str(VIDEO) ->
         Suspend(i, Calling(trn, Call("generateVideos", d.model, d.refinedPrompt,
                                      [numberOfVideos |-> 1, resolution |-> "720p",
                                       aspectRatio |-> "16:9"])))
    [] d.type = Str(AUDIO) ->
         Suspend(i, Calling(trn, Call("generateAudioResponse", d.model, d.refinedPrompt,
                                      [voiceName |-> "Fenrir"])))
    [] OTHER ->
         Commit(i, trn, ResponseContent(d, Undefined, Undefined, Undefined, Undefined))

\* ensurePaidKeySelection up to its first await (lines 51-53, 61)
ensurePaidKeySelection(i, trn) ==
  LET invoked == [trn EXCEPT !.gate = Len(trn.calls)] IN
  IF aistudio
  THEN Suspend(i, Calling(invoked, Call("hasSelectedApiKey", Undefined, Undefined, NoConfig)))
  ELSE Execute(i, invoked)

\* variant: the gate is invoked for every decision
AfterDecisionAlwaysGated(i, trn) == ensurePaidKeySelection(i, trn)

\* lines 84-97: the progress signals, then the gate if the decision is flagged
AfterDecision(i, trn) ==
  IF trn.decision.requiresPaidKey THEN ensurePaidKeySelection(i, trn)
  ELSE Execute(i, trn)

\* variant: the inner catch swallows the error and the turn goes on
KeyErrorIgnored(i, trn) == Execute(i, trn)

\* catch (keyError) (lines 94-96)
KeyError(i, trn) ==
  Catch(i, trn, Str(<<"API Key selection failed or was cancelled.">>))

Classified(trn, response) ==
  [Answered(trn, Outcome(response)) EXCEPT !.classified = response.text]

\* the classification call of orchestrateRequest answers (lines 35-66, 83-97)
OrchestrateAnswers(i, response) ==
  /\ turns[i].pc = "orchestrateRequest"
  /\ LET r == orchestrateRequest(response) IN
       IF r.ok THEN AfterDecision(i, [Classified(turns[i], response)
                                        EXCEPT !.decision = r.value])
       ELSE Catch(i, Classified(turns[i], response), r.message)
  /\ lastEvent' = "other"
  /\ UNCHANGED <<input, aistudio, playback>>

\* window.aistudio.hasSelectedApiKey() answers (lines 53-59)
HasSelectedApiKeyAnswers(i, answer) ==
  /\ turns[i].pc = "hasSelectedApiKey"
  /\ CASE answer = "rejected" -> KeyError(i, Answered(turns[i], answer))
       [] answer = "false" ->
            Suspend(i, Calling(Answered(turns[i], answer),
                               Call("openSelectKey", Undefined, Undefined, NoConfig)))
       [] OTHER -> Execute(i, Answered(turns[i], answer))
  /\ lastEvent' = "other"
  /\ UNCHANGED <<input, aistudio, playback>>

\* window.aistudio.openSelectKey() answers (lines 55-57)
OpenSelectKeyAnswers(i, answer) ==
  /\ turns[i].pc = "openSelectKey"
  /\ IF answer = "rejected" THEN KeyError(i, Answered(turns[i], answer))
     ELSE Execute(i, Answered(turns[i], answer))
  /\ lastEvent' = "other"
  /\ UNCHANGED <<input, aistudio, playback>>

\* generateTextResponse answers (lines 110-120, 141)
TextAnswers(i, response) ==
  /\ turns[i].pc = "generateTextResponse"
  /\ LET r == generateTextResponse(response) IN
       IF r.ok
       THEN Commit(i, Answered(turns[i], Outcome(response)),
                   ResponseContent(turns[i].decision, r.value.text, Undefined, Undefined,
                                   GroundingUrls(r.value.groundingChunks)))
       ELSE Catch(i, Answered(turns[i], Outcome(response)), r.message)
  /\ lastEvent' = "other"
  /\ UNCHANGED <<input, aistudio, playback>>

\* generateImageResponse answers (lines 123-126, 141)
ImageAnswers(i, response) ==
  /\ turns[i].pc = "generateImageResponse"
  /\ LET r == generateImageResponse(response) IN
       IF r.ok
       THEN Commit(i, Answered(turns[i], Outcome(response)),
                   ResponseContent(turns[i].decision,
                     Str(<<"I've generated an image based on your description: ">>
                         \o Interpolate(turns[i].decision.refinedPrompt)),
                     DataUrl(r.value), Undefined, Undefined))
       ELSE Catch(i, Answered(turns[i], Outcome(response)), r.message)
  /\ lastEvent' = "other"
  /\ UNCHANGED <<input, aistudio, playback>>

\* generateAudioResponse answers (lines 135-138, 141)
AudioAnswers(i, response) ==
  /\ turns[i].pc = "generateAudioResponse"
  /\ LET r == generateAudioResponse(response) IN
       IF r.ok
       THEN Commit(i, Answered(turns[i], Outcome(response)),
                   ResponseContent(turns[i].decision,
                     Str(<<"Here is the audio playback for your text.">>),
                     Undefined, r.value, Undefined))
       ELSE Catch(i, Answered(turns[i], Outcome(response)), r.message)
  /\ lastEvent' = "other"
  /\ UNCHANGED <<input, aistudio, playback>>

\* variant: a rejected status check is taken as "not done" and polled again
OperationErrorRetried(i, trn, message) ==
  Suspend(i, Calling(trn, Call("setTimeout", Undefined, Undefined, NoConfig)))

\* a rejected generateVideos or getVideosOperation call leaves
\* generateVideoResponse (lines 131, 144) and reaches the catch of handleSubmit
OperationError(i, trn, message) == Catch(i, trn, message)

\* generateVideoResponse holding a new operation state: the while test, and
\* after the loop the uri test and the fetch (lines 142-151)
AfterOperation(i, trn) ==
  IF ShouldPoll(trn.operation)
  THEN Suspend(i, Calling(trn, Call("setTimeout", Undefined, Undefined, NoConfig)))
  ELSE IF NoVideoUri(trn.operation.uri)
  THEN Catch(i, trn, Str(<<"Video generation failed or returned no URI.">>))
  ELSE Suspend(i, Calling(trn, Call("fetch", Undefined,
                                    Str(trn.operation.uri.s \o <<"&key=">>), NoConfig)))

\* the service may report "not done" only MaxPolls times in a turn
WithinPolls(trn, response) ==
  response.rejected \/ response.operation.done \/ NotDoneReports(trn) < MaxPolls

Received(trn, operation) ==
  [Answered(trn, IF operation.done THEN "done" ELSE "not done")
     EXCEPT !.operation = operation, !.reports = Append(@, operation.done)]

\* ai.models.generateVideos answers (lines 131-139)
GenerateVideosAnswers(i, response) ==
  /\ turns[i].pc = "generateVideos"
  /\ WithinPolls(turns[i], response)
  /\ IF response.rejected
     THEN OperationError(i, Answered(turns[i], "rejected"), response.message)
     ELSE AfterOperation(i, Received(turns[i], response.operation))
  /\ lastEvent' = "other"
  /\ UNCHANGED <<input, aistudio, playback>>

\* the 5 s timer of line 143 fires: line 144 issues the status check
TimerFires(i) ==
  /\ turns[i].pc = "setTimeout"
  /\ Suspend(i, Calling(Answered(turns[i], "resolved"),
                        Call("getVideosOperation", Undefined, Undefined, NoConfig)))
  /\ lastEvent' = "other"
  /\ UNCHANGED <<input, aistudio, playback>>

\* ai.operations.getVideosOperation answers (line 144)
GetVideosOperationAnswers(i, response) ==
  /\ turns[i].pc = "getVideosOperation"
  /\ WithinPolls(turns[i], response)
  /\ IF response.rejected
     THEN OperationError(i, Answered(turns[i], "rejected"), response.message)
     ELSE AfterOperation(i, Received(turns[i], response.operation))
  /\ lastEvent' = "other"
  /\ UNCHANGED <<input, aistudio, playback>>

\* fetch of the video bytes answers (lines 151-154)
FetchAnswers(i, response) ==
  /\ turns[i].pc = "fetch"
  /\ IF response.rejected
     THEN Catch(i, Answered(turns[i], "rejected"), response.message)
     ELSE IF ~response.ok
     THEN Catch(i, Answered(turns[i], "not ok"),
                Str(<<"Failed to download generated video.">>))
     ELSE Suspend(i, Calling(Answered(turns[i], "ok"),
                             Call("blob", Undefined, Undefined, NoConfig)))
  /\ lastEvent' = "other"
  /\ UNCHANGED <<input, aistudio, playback>>

\* fileResponse.blob() answers (lines 154-155, App.tsx 129-131, 141)
BlobAnswers(i, answer) ==
  /\ turns[i].pc = "blob"
  /\ IF answer = "rejected"
     THEN Catch(i, Answered(turns[i], answer), Str(<<"TypeError: Failed to fetch">>))
     ELSE Commit(i, Answered(turns[i], answer),
                 ResponseContent(turns[i].decision,
                   Str(<<"I've generated a video for: ">>
                       \o Interpolate(turns[i].decision.refinedPrompt)
                       \o <<". This process took some time to render using Veo.">>),
                   Str(<<"blob:object-url">>), Undefined, Undefined))
  /\ lastEvent' = "other"
  /\ UNCHANGED <<input, aistudio, playback>>

Next ==
  \/ \E v \in Inputs : SetInput(v)
  \/ handleSubmit
  \/ \E i \in DOMAIN turns, response \in ClassifyResponses : OrchestrateAnswers(i, response)
  \/ \E i \in DOMAIN turns, answer \in {"true", "false", "rejected"} :
       HasSelectedApiKeyAnswers(i, answer)
  \/ \E i \in DOMAIN turns, answer \in {"resolved", "rejected"} :
       OpenSelectKeyAnswers(i, answer)
  \/ \E i \in DOMAIN turns, response \in TextResponses : TextAnswers(i, response)
  \/ \E i \in DOMAIN turns, response \in ImageResponses : ImageAnswers(i, response)
  \/ \E i \in DOMAIN turns, response \in AudioResponses : AudioAnswers(i, response)
  \/ \E i \in DOMAIN turns, response \in OperationResponses :
       GenerateVideosAnswers(i, response)
  \/ \E i \in DOMAIN turns : TimerFires(i)
  \/ \E i \in DOMAIN turns, response \in OperationResponses :
       GetVideosOperationAnswers(i, response)
  \/ \E i \in DOMAIN turns, response \in FetchResponses : FetchAnswers(i, response)
  \/ \E i \in DOMAIN turns, answer \in {"resolved", "rejected"} : BlobAnswers(i, answer)

Spec == Init /\ [][Next]_vars

\* a pending call of some turn returns or fails, or its timer fires
Returns ==
  \/ \E i \in DOMAIN turns, response \in ClassifyResponses : OrchestrateAnswers(i, response)
  \/ \E i \in DOMAIN turns, answer \in {"true", "false", "rejected"} :
       HasSelectedApiKeyAnswers(i, answer)
  \/ \E i \in DOMAIN turns, answer \in {"resolved", "rejected"} :
       OpenSelectKeyAnswers(i, answer)
  \/ \E i \in DOMAIN turns, response \in TextResponses : TextAnswers(i, response)
  \/ \E i \in DOMAIN turns, response \in ImageResponses : ImageAnswers(i, response)
  \/ \E i \in DOMAIN turns, response \in AudioResponses : AudioAnswers(i, response)
  \/ \E i \in DOMAIN turns, response \in OperationResponses :
       GenerateVideosAnswers(i, response)
  \/ \E i \in DOMAIN turns : TimerFires(i)
  \/ \E i \in DOMAIN turns, response \in OperationResponses :
       GetVideosOperationAnswers(i, response)
  \/ \E i \in DOMAIN turns, response \in FetchResponses : FetchAnswers(i, response)
  \/ \E i \in DOMAIN turns, answer \in {"resolved", "rejected"} : BlobAnswers(i, answer)

\* every call a turn awaits eventually returns or fails (and, by WithinPolls,
\* the video operation eventually reports done)
LiveSpec == Spec /\ WF_vars(Returns)

\* ------------------------------------------------- playback (ChatMessage)
\* handlePlayAudio (part_000 lines 17-42): a click on the play button of
\* message m; decodeAudio has no await that suspends it
handlePlayAudio(m) ==
  /\ Truthy(messages[m].audioData)
  /\ IF playback.isPlaying
     THEN playback' = [playback EXCEPT !.isPlaying = FALSE]
     ELSE /\ Len(playback.decoded) < MaxPlays
          /\ LET buffer == decodeAudio(messages[m].audioData.s)
             IN playback' = [playback EXCEPT !.isPlaying = buffer.ok,
                                             !.decoded = Append(@, buffer)]
  /\ UNCHANGED <<input, messages, isLoading, loadingStep, currentModel,
                 currentTask, error, aistudio, turns, lastEvent>>

\* source.onended (line 35)
Ended ==
  /\ playback.isPlaying
  /\ playback' = [playback EXCEPT !.isPlaying = FALSE]
  /\ UNCHANGED <<input, messages, isLoading, loadingStep, currentModel,
                 currentTask, error, aistudio, turns, lastEvent>>

\* decodeAudioDataRaw applied to the bytes of message m with a channel count
\* of its caller's choice
ApplyDecodeAudioDataRaw(m, numChannels) ==
  /\ Truthy(messages[m].audioData)
  /\ playback.applied = <<>>
  /\ atob(messages[m].audioData.s).ok
  /\ playback' =
       [playback EXCEPT !.applied =
          <<[numChannels |-> numChannels,
             buffer |-> decodeAudioDataRaw(
                          Uint8Array(atob(messages[m].audioData.s).value),
                          24000, numChannels)]>>]
  /\ UNCHANGED <<input, messages, isLoading, loadingStep, currentModel,
                 currentTask, error, aistudio, turns, lastEvent>>

\* an audio turn has ended: its message holds the payload the service sent
\* (never the empty string, which generateAudioResponse refuses)
DecodeInit ==
  /\ input = <<>>
  /\ \E p \in Payloads :
       /\ PayloadBytes(p) # <<>>
       /\ messages =
            <<Welcome, UserMessage(<<" ", "h", "i">>),
              ResponseContent(orchestrateRequest(Decided(Str(AUDIO), Str(TtsModel))).value,
                              Str(<<"Here is the audio playback for your text.">>),
                              Undefined, Str(btoa(PayloadBytes(p))), Undefined)>>
       /\ playback = [NoPlayback EXCEPT !.sent = p]
  /\ isLoading = FALSE
  /\ loadingStep = "null"
  /\ currentModel = Undefined
  /\ currentTask = Undefined
  /\ error = Null
  /\ aistudio \in BOOLEAN
  /\ turns = <<>>
  /\ lastEvent = "other"

DecodeNext ==
  \/ \E m \in DOMAIN messages : handlePlayAudio(m)
  \/ Ended
  \/ \E m \in DOMAIN messages, numChannels \in 1..MaxChannels :
       ApplyDecodeAudioDataRaw(m, numChannels)

DecodeSpec == DecodeInit /\ [][DecodeNext]_vars

\* ------------------------------------------------------------- properties
\* the pipeline phase the UI shows, from isLoading and loadingStep
Phase ==
  CASE ~isLoading /\ loadingStep = "null" -> "Idle"
    [] isLoading /\ loadingStep = "orchestrating" -> "Orchestrating"
    [] isLoading /\ loadingStep = "generating" -> "Generating"
    [] OTHER -> "Mixed"

InFlight(ts) == Cardinality({i \in DOMAIN ts : Running(ts[i])})
HasDecision(trn) == trn.decision # NoDecision
HandlerCalls ==
  {"generateTextResponse", "generateImageResponse", "generateVideos",
   "generateAudioResponse"}
Called(trn, fn) == \E k \in DOMAIN trn.calls : trn.calls[k].fn = fn
HandlerInvoked(trn) == \E fn \in HandlerCalls : Called(trn, fn)
CallCount(trn, fn) == Cardinality({k \in DOMAIN trn.calls : trn.calls[k].fn = fn})
AnswersTo(trn, fn) ==
  {trn.answers[k] : k \in {j \in DOMAIN trn.answers : trn.calls[j].fn = fn}}
\* the polling loop has been left through its test: a done state was received
LoopLeft(trn) == trn.reports # <<>> /\ trn.reports[Len(trn.reports)]

\* C1: at most one turn is in flight; a submit that arrives while the phase is
\* not Idle appends no message, starts no call and changes no pipeline state.
C1_SubmitRejectedWhileBusy ==
  [][/\ (Phase # "Idle" /\ handleSubmit) =>
          UNCHANGED <<input, messages, turns, isLoading, loadingStep,
                      currentModel, currentTask, error>>
     /\ InFlight(turns') <= 1]_vars

\* a submit with text in the box was ignored while a status check was pending
C1_Witness ==
  /\ lastEvent = "submit ignored"
  /\ Trim(input) # <<>>
  /\ Phase = "Generating"
  /\ \E i \in DOMAIN turns : turns[i].pc = "getVideosOperation"

\* C2: an assistant message is appended only in a step in which a turn ends
\* after its decision was made and its handler was invoked and returned; a
\* step in which a turn fails appends nothing.
C2_AssistantOnlyAfterHandler ==
  [][\A i \in DOMAIN turns :
       (Running(turns[i]) /\ i \in DOMAIN turns' /\ ~Running(turns'[i])) =>
          IF turns'[i].outcome = "failed" THEN messages' = messages
          ELSE HasDecision(turns'[i]) /\ HandlerInvoked(turns'[i])]_vars

\* C3: when no turn is in flight the phase is Idle, whatever the outcome of
\* the turns that have completed.
C3_IdleAfterEveryTurn ==
  InFlight(turns) = 0 => (Phase = "Idle" /\ ~isLoading /\ loadingStep = "null")

\* a turn has failed at the video download and the phase is Idle again
C3_Witness ==
  /\ \E i \in DOMAIN turns :
       turns[i].pc = "done" /\ turns[i].outcome = "failed" /\ turns[i].failedAt = "fetch"
  /\ Phase = "Idle"

\* C4: every decision orchestrateRequest returns has a non-empty model
\* identifier and a type that is one of the five task kinds.
C4_DecisionWellFormed ==
  \A i \in DOMAIN turns :
    HasDecision(turns[i]) =>
      /\ turns[i].decision.model.t = "string"
      /\ turns[i].decision.model.s # <<>>
      /\ turns[i].decision.type \in {Str(k) : k \in TaskType}

\* the classification text is no JSON object or lacks a required property
Incomplete(text) ==
  \/ ~Truthy(text)
  \/ ~text.doc.valid
  \/ text.doc.value.t # "object"
  \/ \E f \in {"type", "model", "reasoning", "refinedPrompt"} :
       text.doc.value.fields[f].t = "undefined"

\* C5: when the classification call answers with text that is no valid
\* structured data or lacks a required field, orchestrateRequest returns no
\* decision, the turn fails there, and no handler is invoked.
C5_IncompleteReplyFails ==
  \A i \in DOMAIN turns :
    (turns[i].answers # <<>> /\ turns[i].answers[1] = "resolved"
       /\ Incomplete(turns[i].classified)) =>
      /\ ~HasDecision(turns[i])
      /\ turns[i].outcome = "failed"
      /\ turns[i].failedAt = "orchestrateRequest"
      /\ ~HandlerInvoked(turns[i])

\* C6 as stated: requiresPaidKey is true exactly for the two identifiers
\* 'veo-3.1-fast-generate-preview' and 'gemini-3-pro-image-preview'.
C6_PaidKeyIffTheTwoModels ==
  \A i \in DOMAIN turns :
    HasDecision(turns[i]) =>
      (turns[i].decision.requiresPaidKey
         <=> turns[i].decision.model.s \in {VeoModel, ProImageModel})

\* C6, amended: for the identifiers the selection rules name, requiresPaidKey
\* is true exactly for the video model and the high-resolution image model;
\* other identifiers of the Veo and pro-image families are flagged too.
C6_PaidKeyForInstructedModels ==
  \A i \in DOMAIN turns :
    HasDecision(turns[i]) =>
      /\ turns[i].decision.model.s \in InstructedModels =>
           (turns[i].decision.requiresPaidKey
              <=> turns[i].decision.model.s \in {VeoModel, ProImageModel})
      /\ turns[i].decision.model.s \in {OtherVeoModel, OtherProImageModel} =>
           turns[i].decision.requiresPaidKey
      /\ turns[i].decision.model.s = <<>> => ~turns[i].decision.requiresPaidKey

\* a decision for the complex-text model, which holds 'pro' but is not flagged
C6_Witness ==
  \E i \in DOMAIN turns :
    /\ turns[i].decision.model = Str(ProModel)
    /\ ~turns[i].decision.requiresPaidKey
    /\ turns[i].pc = "generateTextResponse"

\* C7: the operation states a turn receives are k "not done" states and then
\* at most one "done" state; nothing is requested after the done state; when
\* the loop is left, k+1 states have been examined and exactly k of them were
\* obtained by getVideosOperation, each after one timer.
C7_PollsUntilDone ==
  \A i \in DOMAIN turns :
    LET trn == turns[i]
        k == NotDoneReports(trn)
    IN /\ \A j \in 1..(Len(trn.reports) - 1) : ~trn.reports[j]
       /\ CallCount(trn, "getVideosOperation") <= k
       /\ CallCount(trn, "setTimeout") <= k
       /\ LoopLeft(trn) =>
            /\ Len(trn.reports) = k + 1
            /\ CallCount(trn, "getVideosOperation") = k
            /\ CallCount(trn, "setTimeout") = k
            /\ trn.pc \notin {"generateVideos", "setTimeout", "getVideosOperation"}

\* not done, not done, done: the loop is left and the download is pending
C7_Witness ==
  \E i \in DOMAIN turns :
    turns[i].reports = <<FALSE, FALSE, TRUE>> /\ turns[i].pc = "fetch"

\* C8: after the done state, a missing uri fails the turn with the no-video
\* error and no fetch is issued; with a uri the bytes are fetched, a response
\* that is not ok fails the turn with the download error, and only a turn
\* whose operation had a uri and whose download succeeded commits a video
\* message, with the object URL as its attachment.
C8_VideoNeedsUriAndDownload ==
  \A i \in DOMAIN turns :
    LET trn == turns[i] IN
    /\ (LoopLeft(trn) /\ ~Truthy(trn.operation.uri)) =>
         /\ trn.pc = "done" /\ trn.outcome = "failed"
         /\ trn.thrown = Str(<<"Video generation failed or returned no URI.">>)
         /\ ~Called(trn, "fetch")
    /\ Called(trn, "fetch") => (LoopLeft(trn) /\ Truthy(trn.operation.uri))
    /\ "not ok" \in AnswersTo(trn, "fetch") =>
         /\ trn.pc = "done" /\ trn.outcome = "failed"
         /\ trn.thrown = Str(<<"Failed to download generated video.">>)
         /\ ~Called(trn, "blob")
    /\ "rejected" \in AnswersTo(trn, "fetch") \cup AnswersTo(trn, "blob") =>
         trn.outcome = "failed"
    /\ (trn.outcome = "committed" /\ trn.decision.type = Str(VIDEO)) =>
         /\ LoopLeft(trn) /\ Truthy(trn.operation.uri)
         /\ AnswersTo(trn, "fetch") = {"ok"}
         /\ AnswersTo(trn, "blob") = {"resolved"}
         /\ messages[Len(messages)].taskType = Str(VIDEO)
         /\ messages[Len(messages)].attachmentUrl = Str(<<"blob:object-url">>)

\* after one poll the operation is done without a uri: the turn has failed
C8_Witness ==
  \E i \in DOMAIN turns :
    /\ turns[i].reports = <<FALSE, TRUE>>
    /\ ~Truthy(turns[i].operation.uri)
    /\ turns[i].outcome = "failed"
    /\ error = Str(<<"Video generation failed or returned no URI.">>)

\* C9: a rejected call is the last call of its turn and fails it; a timer is
\* started only after a "not done" state and a status check only after a
\* timer; every other call is issued at most once in a turn.
C9_NoRetryOnError ==
  \A i \in DOMAIN turns :
    LET trn == turns[i] IN
    /\ \A j \in DOMAIN trn.answers :
         trn.answers[j] = "rejected" =>
           (j = Len(trn.calls) /\ trn.pc = "done" /\ trn.outcome = "failed")
    /\ \A j \in DOMAIN trn.calls :
         /\ trn.calls[j].fn = "setTimeout" => (j > 1 /\ trn.answers[j - 1] = "not done")
         /\ trn.calls[j].fn = "getVideosOperation" =>
              (j > 1 /\ trn.calls[j - 1].fn = "setTimeout")
    /\ \A fn \in {"orchestrateRequest", "hasSelectedApiKey", "openSelectKey",
                  "fetch", "blob"} \cup HandlerCalls :
         CallCount(trn, fn) <= 1

\* a status check was rejected after a "not done" state: the turn has failed
C9_Witness ==
  \E i \in DOMAIN turns :
    /\ Len(turns[i].answers) = Len(turns[i].calls)
    /\ turns[i].calls[Len(turns[i].calls)].fn = "getVideosOperation"
    /\ turns[i].answers[Len(turns[i].calls)] = "rejected"
    /\ turns[i].reports = <<FALSE>>
    /\ turns[i].outcome = "failed"

\* C10: every message with a task kind has a model identifier; every AUDIO
\* message has an audio payload; every IMAGE or VIDEO message has an
\* attachment reference.
C10_MessagesCarryPayload ==
  \A k \in DOMAIN messages :
    LET m == messages[k] IN
    /\ m.taskType # Undefined => m.usedModel.t \notin {"undefined", "null"}
    /\ m.taskType = Str(AUDIO) => (m.audioData.t = "string" /\ m.audioData.s # <<>>)
    /\ m.taskType \in {Str(IMAGE), Str(VIDEO)} =>
         (m.attachmentUrl.t = "string" /\ m.attachmentUrl.s # <<>>)

\* a conversation that holds an AUDIO message and an IMAGE message
C10_Witness ==
  \E a, b \in DOMAIN messages :
    messages[a].taskType = Str(AUDIO) /\ messages[b].taskType = Str(IMAGE)
\* C11: the conversation is append-only: every step leaves the messages as
\* they are or adds one message at the end.
C11_AppendOnly ==
  [][\/ messages' = messages
     \/ /\ Len(messages') = Len(messages) + 1
        /\ SubSeq(messages', 1, Len(messages)) = messages]_vars

\* two turns have each added a user message and an assistant message
C11_Witness ==
  /\ Len(messages) = 5
  /\ messages[2].role = "user" /\ messages[3].role = "assistant"
  /\ messages[4].role = "user" /\ messages[5].role = "assistant"
GateCalls == {"hasSelectedApiKey", "openSelectKey"}

\* C12: a turn invokes ensurePaidKeySelection only if its decision is flagged
\* requiresPaidKey, and then after the classification call has returned and
\* before any handler call; a turn whose decision is not flagged never invokes
\* it and never calls the key-selection mechanism.
C12_GateOnlyWhenFlagged ==
  \A i \in DOMAIN turns :
    LET trn == turns[i] IN
    /\ trn.gate # 0 =>
         /\ HasDecision(trn) /\ trn.decision.requiresPaidKey
         /\ trn.gate = 1 /\ trn.calls[1].fn = "orchestrateRequest"
         /\ trn.answers[1] = "resolved"
         /\ \A k \in DOMAIN trn.calls :
              trn.calls[k].fn \in HandlerCalls \cup GateCalls => k > trn.gate
    /\ (~HasDecision(trn) \/ ~trn.decision.requiresPaidKey) =>
         /\ trn.gate = 0
         /\ \A fn \in GateCalls : ~Called(trn, fn)

\* a flagged turn invoked the gate, went through the key dialog and then
\* started the video handler
C12_Witness ==
  \E i \in DOMAIN turns :
    /\ turns[i].gate = 1
    /\ Called(turns[i], "openSelectKey")
    /\ Called(turns[i], "generateVideos")
GateMessage == Str(<<"API Key selection failed or was cancelled.">>)
GateFailed(trn) == trn.outcome = "failed" /\ trn.failedAt \in GateCalls
CheckFailed(trn) == "rejected" \in AnswersTo(trn, "hasSelectedApiKey")
GrantFlowFailed(trn) == "rejected" \in AnswersTo(trn, "openSelectKey")
\* ensurePaidKeySelection was invoked and is no longer awaited
GateLeft(trn) == trn.gate # 0 /\ trn.pc \notin GateCalls
\* the turn went on to the switch on decision.type: it called the handler of
\* its type, or its type has no case and it went on to line 141
ReachedSwitch(trn) ==
  \/ HandlerInvoked(trn)
  \/ /\ trn.decision.type \notin {Str(t) : t \in TaskType}
     /\ trn.outcome = "committed"
\* what the gate does in every case but a failure, and what a failure does
GateOutcome(trn, fails) ==
  /\ GateFailed(trn) <=> fails
  /\ GateFailed(trn) =>
       /\ ~HandlerInvoked(trn)
       /\ trn.pc = "done" /\ trn.thrown = GateMessage /\ error = GateMessage
  /\ ~fails => ReachedSwitch(trn)
  /\ CallCount(trn, "hasSelectedApiKey") <= 1
  /\ CallCount(trn, "openSelectKey") <= 1
  /\ Called(trn, "openSelectKey") =>
       /\ AnswersTo(trn, "hasSelectedApiKey") = {"false"}
       /\ trn.calls[Len(trn.calls)].fn # "hasSelectedApiKey"

\* C13 as stated: the gate fails only if the interactive grant flow
\* (openSelectKey) rejects; in every other case the turn proceeds; a gate
\* failure invokes no handler and ends the turn with the gate message.
C13_GateFailsOnlyOnGrantFlow ==
  \A i \in DOMAIN turns :
    GateLeft(turns[i]) => GateOutcome(turns[i], GrantFlowFailed(turns[i]))

\* C13, amended: the gate fails if and only if the capability check
\* (hasSelectedApiKey) or the interactive grant flow (openSelectKey) rejects;
\* in every other case it returns without asking again and the turn goes on
\* to the switch; a gate failure invokes no handler and ends the turn with the
\* gate message in the error slot.
C13_GateFailsOnCheckOrGrantFlow ==
  \A i \in DOMAIN turns :
    GateLeft(turns[i]) =>
      GateOutcome(turns[i], CheckFailed(turns[i]) \/ GrantFlowFailed(turns[i]))

\* the capability check itself rejected and the turn ended with the gate
\* message, the grant flow never having started
C13_Witness ==
  \E i \in DOMAIN turns :
    /\ GateFailed(turns[i]) /\ turns[i].failedAt = "hasSelectedApiKey"
    /\ ~Called(turns[i], "openSelectKey")
    /\ error = GateMessage
\* the step ends turn i in failure
Fails(i) ==
  /\ i \in DOMAIN turns /\ Running(turns[i])
  /\ i \in DOMAIN turns' /\ turns'[i].pc = "done" /\ turns'[i].outcome = "failed"

\* C14: the step in which a turn fails puts the failure message (or the
\* fallback text when the message is empty) in the error slot and returns the
\* phase to Idle; a non-empty submit in phase Idle is accepted whatever the
\* error slot holds: it clears the slot, appends the user message, starts a
\* classification call on the submitted text and moves to Orchestrating.
C14_ErrorNotSticky ==
  [][/\ \A i \in DOMAIN turns :
          Fails(i) =>
            /\ error' = Or(turns'[i].thrown, Str(<<"An unexpected error occurred.">>))
            /\ Truthy(error')
            /\ Phase' = "Idle"
            /\ messages' = messages
     /\ (handleSubmit /\ Phase = "Idle" /\ Trim(input) # <<>>) =>
          /\ error' = Null
          /\ Phase' = "Orchestrating"
          /\ input' = <<>>
          /\ messages' = Append(messages, UserMessage(input))
          /\ InFlight(turns') = 1
          /\ turns'[Len(turns')] = NewTurn(input)]_vars

\* a turn failed before its handler, and the submit that followed was taken:
\* two user messages in a row, the error slot empty, classification pending
C14_Witness ==
  /\ Len(messages) = 3
  /\ messages[2].role = "user" /\ messages[3].role = "user"
  /\ error = Null
  /\ Phase = "Orchestrating"
  /\ \E i \in DOMAIN turns : turns[i].pc = "orchestrateRequest"
\* the uris a grounding chunk carries, and whether one of them is usable
Populated(c) ==
  {s.uri : s \in {s \in {c.web, c.maps} : s.def /\ s.uri.t = "string" /\ s.uri.s # <<>>}}
Resolvable(chunks) == {k \in DOMAIN chunks : Populated(chunks[k]) # {}}
\* the position of chunk k among the resolvable ones
Rank(chunks, k) == Cardinality({m \in Resolvable(chunks) : m <= k})

\* C15: every grounding reference on a message has a non-empty uri; when the
\* text handler returns the chunks of the first candidate, the stored list has
\* one {uri, title} entry per chunk with a usable uri, in the chunks' order,
\* the uri taken from web when web has one and from maps otherwise, the title
\* never empty; when there are no chunks nothing is stored.
C15_GroundingUrisResolved ==
  [][/\ \A m \in DOMAIN messages' :
          messages'[m].groundingUrls.t = "array" =>
            \A j \in DOMAIN messages'[m].groundingUrls.s :
              LET x == messages'[m].groundingUrls.s[j] IN
              x.uri.t = "string" /\ x.uri.s # <<>> /\ Truthy(x.title)
     /\ \A i \in DOMAIN turns, response \in TextResponses :
          (TextAnswers(i, response) /\ ~response.rejected) =>
            LET stored == messages'[Len(messages')].groundingUrls
                chunks == FirstGroundingChunks(response)
            IN IF chunks.t # "array" THEN stored = Undefined
               ELSE /\ stored.t = "array"
                    /\ Len(stored.s) = Cardinality(Resolvable(chunks.s))
                    /\ \A k \in Resolvable(chunks.s) :
                         LET c == chunks.s[k]
                             x == stored.s[Rank(chunks.s, k)]
                         IN /\ x.uri \in Populated(c)
                            /\ (c.web.def /\ Truthy(c.web.uri)) => x.uri = c.web.uri
                            /\ x.title \in {c.web.title, c.maps.title, Str(<<"Source">>)}]_vars

\* a message stores three references out of five chunks: the two chunks
\* without a usable uri are gone and the maps-backed ones are kept in order
C15_Witness ==
  \E m \in DOMAIN messages :
    /\ messages[m].groundingUrls.t = "array"
    /\ Len(messages[m].groundingUrls.s) = 3
    /\ messages[m].groundingUrls.s[1].uri = Uri1
    /\ messages[m].groundingUrls.s[2] = [uri |-> Uri2, title |-> Str(<<"Source">>)]
    /\ messages[m].groundingUrls.s[3].uri = Uri3
\* buffer is what decoding the payload sent with C channels must give: N \div C
\* frames in each of C channels, frame i of channel c the sample i*C + c
\* (counted from 0) over 32768
DecodesTo(buffer, C) ==
  LET samples == playback.sent.samples IN
  /\ buffer.ok
  /\ buffer.value.numberOfChannels = C
  /\ \A c \in 1..C :
       /\ Len(buffer.value.channelData[c]) = Len(samples) \div C
       /\ \A i \in 1..(Len(samples) \div C) :
            buffer.value.channelData[c][i] =
              [num |-> samples[(i - 1) * C + c], den |-> 32768]

\* C16: whatever the byte length of the payload, decoding it gives N \div C
\* frames per channel, frame i of channel c equal to sample i*C + c over
\* 32768, and decoding it again gives the same.
C16_DecodesEveryLength ==
  /\ \A k \in DOMAIN playback.decoded : DecodesTo(playback.decoded[k], 1)
  /\ \A k \in DOMAIN playback.applied :
       DecodesTo(playback.applied[k].buffer, playback.applied[k].numChannels)
  /\ \A j, k \in DOMAIN playback.decoded : playback.decoded[j] = playback.decoded[k]
\* the turn has its decision and is past the gate
ReachedExecution(trn) ==
  HasDecision(trn) /\ trn.pc \notin GateCalls /\ ~GateFailed(trn)
\* the handler and the search flag the switch has for a type
HandlerOf(type) ==
  CASE type \in {Str(TEXT), Str(SEARCH)} -> "generateTextResponse"
    [] type = Str(IMAGE) -> "generateImageResponse"
    [] type = Str(VIDEO) -> "generateVideos"
    [] type = Str(AUDIO) -> "generateAudioResponse"
    [] OTHER -> "none"
HandlerCallsOf(trn) == {k \in DOMAIN trn.calls : trn.calls[k].fn \in HandlerCalls}
OneMatchingHandler(trn) ==
  /\ Cardinality(HandlerCallsOf(trn)) = 1
  /\ \A k \in HandlerCallsOf(trn) :
       /\ k > 1 /\ trn.answers[1] = "resolved"
       /\ trn.calls[k].fn = HandlerOf(trn.decision.type)
       /\ trn.calls[k].model = trn.decision.model
       /\ trn.calls[k].prompt = trn.decision.refinedPrompt
       /\ trn.calls[k].prompt # trn.calls[1].prompt
       /\ trn.calls[k].fn = "generateTextResponse" =>
            (trn.calls[k].config.googleSearch <=> trn.decision.type = Str(SEARCH))

\* C17: every turn that reaches execution has invoked exactly one handler,
\* after the classification call returned: the handler of decision.type (the
\* text handler for TEXT and SEARCH, searching iff SEARCH), with
\* decision.model and decision.refinedPrompt, not the text the user typed.
C17_ExactlyOneMatchingHandler ==
  \A i \in DOMAIN turns :
    ReachedExecution(turns[i]) => OneMatchingHandler(turns[i])
PollingCalls == {"generateVideos", "setTimeout", "getVideosOperation"}
\* turn i is in the polling loop and the step gives it a "not done" state
NotDoneReceived(i) ==
  /\ i \in DOMAIN turns /\ turns[i].pc \in {"generateVideos", "getVideosOperation"}
  /\ i \in DOMAIN turns' /\ Len(turns'[i].reports) = Len(turns[i].reports) + 1
  /\ ~turns'[i].reports[Len(turns'[i].reports)]

\* C18: when every pending call eventually returns or fails and the video
\* operation eventually reports done, a pipeline that is not Idle becomes Idle;
\* a video turn that is told "not done" goes on polling however many such
\* answers it has had, and while it polls the phase is Generating and a
\* submit is rejected.
C18_EventuallyIdle ==
  /\ (Phase # "Idle") ~> (Phase = "Idle")
  /\ [][\A i \in DOMAIN turns :
          NotDoneReceived(i) =>
            /\ turns'[i].pc = "setTimeout" /\ turns'[i].outcome = "running"
            /\ Phase' = "Generating"]_vars
  /\ [](\A i \in DOMAIN turns :
          turns[i].pc \in PollingCalls =>
            /\ Phase = "Generating" /\ Rejected
            /\ \A k \in DOMAIN turns[i].reports : ~turns[i].reports[k])

\* a video turn was told "not done" twice, then "done", downloaded the video
\* and committed: the phase is Idle again
C18_Witness ==
  /\ Phase = "Idle"
  /\ \E i \in DOMAIN turns :
       /\ turns[i].reports = <<FALSE, FALSE, TRUE>>
       /\ turns[i].pc = "done" /\ turns[i].outcome = "committed"
NoImageMessage == Str(<<"No image data returned from API.">>)
\* the parts of the first candidate that have inlineData
InlineParts(response) ==
  {k \in DOMAIN FirstParts(response) : FirstParts(response)[k].inlineData.def}

\* C19: when the image call returns, the turn fails with the no-image error
\* if and only if no part of the first candidate has inline data (no candidate
\* and no parts included); otherwise the attachment is made of the first such
\* part in the order of the parts, with mime type image/png when the part
\* names none.
C19_FirstInlinePart ==
  [][\A i \in DOMAIN turns, response \in ImageResponses :
       (ImageAnswers(i, response) /\ ~response.rejected) =>
         LET parts == FirstParts(response)
             inline == InlineParts(response)
         IN IF inline = {}
            THEN /\ Fails(i) /\ turns'[i].thrown = NoImageMessage
                 /\ messages' = messages
            ELSE LET first == CHOOSE k \in inline : \A j \in inline : k <= j
                     part == parts[first].inlineData
                 IN /\ turns'[i].outcome = "committed"
                    /\ turns'[i].thrown # NoImageMessage
                    /\ messages'[Len(messages')].attachmentUrl =
                         Str(<<"data:">>
                             \o (IF Truthy(part.mimeType) THEN part.mimeType.s
                                 ELSE <<"image/png">>)
                             \o <<";base64,">> \o Interpolate(part.data))]_vars

\* an image turn committed a PNG attachment whose part named no mime type
C19_Witness ==
  /\ \E i \in DOMAIN turns :
       Called(turns[i], "generateImageResponse") /\ turns[i].outcome = "committed"
  /\ messages[Len(messages)].attachmentUrl =
       Str(<<"data:", "image/png", ";base64,">> \o Png.s)

\* C20: every image request asks for size 2K and aspect ratio 16:9 when its
\* model is 'gemini-3-pro-image-preview', and for aspect ratio 1:1 and no
\* size when it is any other model.
C20_ImageConfigByModel ==
  \A i \in DOMAIN turns :
    \A k \in DOMAIN turns[i].calls :
      LET call == turns[i].calls[k] IN
      call.fn = "generateImageResponse" =>
        IF call.model = Str(ProImageModel)
        THEN call.config = [imageSize |-> "2K", aspectRatio |-> "16:9"]
        ELSE call.config = [imageSize |-> "none", aspectRatio |-> "1:1"]

\* an image request for the high-resolution model carries the 2K, 16:9
\* configuration
C20_Witness ==
  \E i \in DOMAIN turns :
    \E k \in DOMAIN turns[i].calls :
      /\ turns[i].calls[k].fn = "generateImageResponse"
      /\ turns[i].calls[k].model = Str(ProImageModel)
      /\ turns[i].calls[k].config.imageSize = "2K"
\* the text requests of a turn
TextCalls(trn) == {k \in DOMAIN trn.calls : trn.calls[k].fn = "generateTextResponse"}

\* C21: a text request carries the thinking budget if and only if its model
\* identifier holds 'pro' and the decision is not SEARCH; it carries the
\* search tool if and only if the decision is SEARCH; no request carries both.
C21_ThinkingXorSearch ==
  \A i \in DOMAIN turns :
    \A k \in TextCalls(turns[i]) :
      LET call == turns[i].calls[k]
          search == turns[i].decision.type = Str(SEARCH)
      IN /\ call.config.googleSearch <=> search
         /\ call.config.thinkingConfig <=> (Includes(call.model.s, ProNeedle) /\ ~search)
         /\ ~(call.config.googleSearch /\ call.config.thinkingConfig)

\* a SEARCH request for the pro model carries the search tool and no
\* thinking budget
C21_Witness ==
  \E i \in DOMAIN turns :
    \E k \in TextCalls(turns[i]) :
      /\ turns[i].decision.type = Str(SEARCH)
      /\ turns[i].calls[k].model = Str(ProModel)
      /\ turns[i].calls[k].config = [googleSearch |-> TRUE, thinkingConfig |-> FALSE]
\* the turn's decision is an IMAGE decision
ImageDecision(trn) == HasDecision(trn) /\ trn.decision.type = Str(IMAGE)
\* generateImageResponse uses the high-resolution widescreen configuration
\* for the model of the turn's decision
HighResolution(trn) ==
  ImageConfig(trn.decision.model.s) = [imageSize |-> "2K", aspectRatio |-> "16:9"]
\* the image requests of a turn carry the configuration of its decision's model
ImageCallsConfigured(trn) ==
  \A k \in DOMAIN trn.calls :
    trn.calls[k].fn = "generateImageResponse" =>
      /\ trn.calls[k].model = trn.decision.model
      /\ trn.calls[k].config = ImageConfig(trn.decision.model.s)

\* C22 as stated: for every IMAGE decision, requiresPaidKey is true exactly
\* when the image request uses the high-resolution widescreen configuration.
C22_FlagIffHighResolution ==
  \A i \in DOMAIN turns :
    ImageDecision(turns[i]) =>
      /\ ImageCallsConfigured(turns[i])
      /\ turns[i].decision.requiresPaidKey <=> HighResolution(turns[i])

\* C22, amended: for an IMAGE decision the high-resolution configuration
\* implies the flag, and the two agree for the image models the selection
\* rules name; a flagged decision with the square configuration has a model
\* of the pro-image or veo family other than 'gemini-3-pro-image-preview'.
C22_HighResolutionImpliesFlag ==
  \A i \in DOMAIN turns :
    ImageDecision(turns[i]) =>
      LET d == turns[i].decision IN
      /\ ImageCallsConfigured(turns[i])
      /\ HighResolution(turns[i]) => d.requiresPaidKey
      /\ d.model.s \in InstructedModels => (d.requiresPaidKey <=> HighResolution(turns[i]))
      /\ (d.requiresPaidKey /\ ~HighResolution(turns[i])) =>
           /\ d.model.s # ProImageModel
           /\ Includes(d.model.s, ProImageNeedle) \/ Includes(d.model.s, VeoNeedle)

\* 'gemini-2.5-pro-image' was flagged, went through the gate, and its image
\* request carries the square configuration
C22_Witness ==
  \E i \in DOMAIN turns :
    /\ ImageDecision(turns[i])
    /\ turns[i].decision.model = Str(OtherProImageModel)
    /\ turns[i].decision.requiresPaidKey /\ turns[i].gate = 1
    /\ \E k \in DOMAIN turns[i].calls :
         /\ turns[i].calls[k].fn = "generateImageResponse"
         /\ turns[i].calls[k].config.aspectRatio = "1:1"
\* C23: a submit whose input is empty or only whitespace changes nothing in
\* any phase: not the input, the messages, the phase, the error slot or the
\* progress signals, and no turn starts or issues a call.
C23_BlankSubmitIsNoOp ==
  [][(handleSubmit /\ Trim(input) = <<>>) =>
       /\ UNCHANGED <<input, messages, isLoading, loadingStep, currentModel,
                      currentTask, error, turns>>
       /\ Phase' = Phase]_vars

\* a whitespace-only submit was ignored in phase Idle while the error of the
\* failed turn before it is still shown
C23_Witness ==
  /\ lastEvent = "submit ignored"
  /\ input = <<" ", " ">>
  /\ Phase = "Idle"
  /\ error # Null

\* the turns in flight
RunningTurns == {i \in DOMAIN turns : Running(turns[i])}

\* C24: in phase Idle and in phase Orchestrating the model and task signals
\* are both unset; in phase Generating they are the model and the type of the
\* decision of the one turn in flight; the phase is always one of the three.
C24_SignalsOnlyWhileGenerating ==
  /\ Phase \in {"Idle", "Orchestrating", "Generating"}
  /\ Phase \in {"Idle", "Orchestrating"} =>
       currentModel = Undefined /\ currentTask = Undefined
  /\ (currentModel # Undefined \/ currentTask # Undefined) => Phase = "Generating"
  /\ Phase = "Generating" =>
       /\ Cardinality(RunningTurns) = 1
       /\ \A i \in RunningTurns :
            /\ HasDecision(turns[i])
            /\ currentModel = turns[i].decision.model
            /\ currentTask = turns[i].decision.type

\* a second turn is being classified after a first one that showed its model
\* and task and committed: both signals are unset again
C24_Witness ==
  /\ Phase = "Orchestrating"
  /\ Len(messages) = 4 /\ messages[3].role = "assistant"
  /\ messages[3].usedModel = Str(VeoModel)
  /\ currentModel = Undefined /\ currentTask = Undefined
====
